---- MODULE Spec2Model ----
(***************************************************************************)
(* Model of the ONNX Runtime backend of the inference server:              *)
(*   src/src/backends/onnx/onnx_backend.cc  (OnnxBackend, OnnxBackend::Context) *)
(*   src/src/backends/onnx/onnx_utils.h     (RETURN_IF_ORT_ERROR, class decl)   *)
(*                                                                         *)
(* Spec      one Run invocation at a time, full payload domain.            *)
(* SpecConc  one runner thread per runner index, invocations interleaved,  *)
(*           reduced payload domain.                                       *)
(* SpecSeq   one worker per context handing numbered Groups to Run one    *)
(*           after the other, up to MaxGroups each.                        *)
(* SpecCreate  CreateExecutionContexts / CreateExecutionContext.           *)
(***************************************************************************)
EXTENDS Integers, Sequences, FiniteSets, TLC

\* ------------------------------------------------------------------ bounds
MaxPayloads == 2
MaxPayloadBatch == 2
MaxRunner == 2
MaxCreateCalls == 2
MaxGroups == 2

\* ------------------------------------------------------- program constants
NO_GPU_DEVICE == -1
NO_BATCHING == 0
\* the null OrtValue* / OrtSession* / OrtAllocatorInfo*
nullptr == 0
\* bytes one batch item of an input occupies (dims x datatype width)
ItemBytes == 2

VARIABLES
  config,           \* ModelConfig returned by Config()
  contexts_,        \* OnnxBackend::contexts_
  live,             \* OrtValue handles created and not yet released
  tensors,          \* live handle -> the tensor it holds
  badReleases,      \* OrtReleaseValue calls on a handle that is not live
  pc,               \* runner -> position inside OnnxBackend::Run
  payloads,         \* runner -> the std::vector<Scheduler::Payload> of the call
  overrides,        \* runner -> names in the representative's input override map
  status,           \* runner -> local `status` of OnnxBackend::Run
  total_batch_size, \* runner -> local of Context::Run
  input_names,      \* runner -> local of Context::Run
  output_names,     \* runner -> local of Context::Run
  fanin,            \* runner -> index of the next name handed to SetInputTensor
  ortOutcome,       \* runner -> what OrtRun did during this call ("none": not called)
  onComplete,       \* runner -> statuses given to OnCompleteQueuedPayloads by this call
  log,              \* runner -> steps this call has executed, in order
  create,           \* state of CreateExecutionContexts and of the destruction
  handoff,          \* runner -> what its scheduler thread handed to Run and got back
  loader            \* state of a call of LoadSavedModel

runVars == <<pc, payloads, overrides, status, total_batch_size, input_names,
             output_names, fanin, ortOutcome, onComplete, log>>
heapVars == <<live, tensors, badReleases>>
vars == <<config, contexts_, heapVars, runVars, create, handoff, loader>>

Runners == 0 .. MaxRunner

\* ------------------------------------------------------------------ Status
Status(code, kind, ref) == [code |-> code, kind |-> kind, ref |-> ref]
Success == Status("SUCCESS", "ok", "")
IsOk(s) == s.code = "SUCCESS"

\* ---------------------------------------------------------------- helpers
RECURSIVE SumSeq(_)
SumSeq(s) == IF s = <<>> THEN 0 ELSE Head(s) + SumSeq(Tail(s))

Names(ios) == [i \in 1 .. Len(ios) |-> ios[i].name]

Count(s, x) == Cardinality({i \in 1 .. Len(s) : s[i] = x})

\* the bytes payload i supplies for an input, tagged with their origin
InputBytes(i, n) == [k \in 1 .. n |-> <<i, k>>]

\* ------------------------------------------------------- Scheduler::Payload
Payload(ok, b, n) ==
  [status_ok |-> ok, batch_size |-> b, byte_size |-> n,
   queue_timer_ |-> TRUE, compute_timer |-> FALSE, written |-> <<>>]

PayloadSet ==
  {Payload(ok, b, b * ItemBytes + d) :
     ok \in BOOLEAN, b \in 0 .. MaxPayloadBatch, d \in {0, 1}}

Groups == UNION {[1 .. n -> PayloadSet] : n \in 0 .. MaxPayloads}

\* ------------------------------------------------------------ OrtValue heap
\* the runtime hands out a handle that is not live
Fresh(used) ==
  CHOOSE h \in 1 .. (Cardinality(used) + 1) :
    h \notin used /\ \A g \in 1 .. (h - 1) : g \in used

Tensor(lead, data) == [lead |-> lead, data |-> data]

NonNull(hs) == {hs[i] : i \in {j \in 1 .. Len(hs) : hs[j] # nullptr}}

\* OrtReleaseValue on every non-null handle of a container, in order
RECURSIVE ReleaseValues(_, _)
ReleaseValues(hs, heap) ==
  IF hs = <<>> THEN heap
  ELSE LET h == Head(hs)
           next == IF h = nullptr THEN heap
                   ELSE IF h \in heap.live
                        THEN [heap EXCEPT !.live = @ \ {h},
                                          !.tensors = [g \in DOMAIN @ \ {h} |-> @[g]]]
                        ELSE [heap EXCEPT !.bad = @ + 1]
       IN ReleaseValues(Tail(hs), next)

\* ------------------------------------------------------ OnnxBackend::Context
Context(name, gpu_device, max_batch_size) ==
  [name_ |-> name, gpu_device_ |-> gpu_device, max_batch_size_ |-> max_batch_size,
   session_ |-> nullptr, allocator_info_ |-> nullptr,
   input_tensors_ |-> <<>>, output_tensors_ |-> <<>>]

InRange(runner_idx) == runner_idx < Len(contexts_)

\* mutant: every runner is given the first context
FirstContext(runner_idx) == 1

\* contexts_[runner_idx]
ContextIndex(runner_idx) == runner_idx + 1

\* first part of Context::Run: payload statuses and the batch size
TotalBatchSize(ps) == SumSeq([i \in 1 .. Len(ps) |-> ps[i].batch_size])

\* mutant: only the first payload's status is looked at
FirstPayloadOk(ps) == ps = <<>> \/ ps[1].status_ok

AllPayloadsOk(ps) == \A i \in 1 .. Len(ps) : ps[i].status_ok

\* mutant: a batch of one is held to the ceiling too
BatchSizeRejectedNoBypass(total, max_batch_size) == total > max_batch_size

\* mutant: the ceiling is off by one
BatchSizeRejectedOffByOne(total, max_batch_size) ==
  (total # 1) /\ (total > max_batch_size + 1)

BatchSizeRejected(total, max_batch_size) ==
  (total # 1) /\ (total > max_batch_size)

\* mutant: a total batch size of zero is not returned on
RunChecksNoZeroReturn(ps, ctx) ==
  LET total == TotalBatchSize(ps) IN
  IF ~AllPayloadsOk(ps)
  THEN [done |-> TRUE, total |-> 0,
        status |-> Status("INTERNAL", "payload_status", ctx.name_)]
  ELSE IF BatchSizeRejected(total, ctx.max_batch_size_)
  THEN [done |-> TRUE, total |-> total,
        status |-> Status("INTERNAL", "batch_size", ctx.name_)]
  ELSE [done |-> FALSE, total |-> total, status |-> Success]

\* [done, status, total]: done means Context::Run returns `status` here
RunChecks(ps, ctx) ==
  LET total == TotalBatchSize(ps) IN
  IF ~AllPayloadsOk(ps)
  THEN [done |-> TRUE, total |-> 0,
        status |-> Status("INTERNAL", "payload_status", ctx.name_)]
  ELSE IF total = 0
  THEN [done |-> TRUE, total |-> total, status |-> Success]
  ELSE IF BatchSizeRejected(total, ctx.max_batch_size_)
  THEN [done |-> TRUE, total |-> total,
        status |-> Status("INTERNAL", "batch_size", ctx.name_)]
  ELSE [done |-> FALSE, total |-> total, status |-> Success]

\* Context::SetInputTensor: returns before it touches anything
SetInputTensor(ctx, name, total, ps, names, heap) ==
  [status |-> Status("UNSUPPORTED", "SetInputTensor", ""),
   input_tensors_ |-> ctx.input_tensors_, input_names |-> names, heap |-> heap]

\* mutant: the failure is written to every payload's status
ReadOutputTensorsMarking(ctx, total, names, ps, heap) ==
  [status |-> Status("UNSUPPORTED", "ReadOutputTensors", ""),
   payloads |-> [i \in 1 .. Len(ps) |-> [ps[i] EXCEPT !.status_ok = FALSE]]]

\* Context::ReadOutputTensors: returns before it touches anything
ReadOutputTensors(ctx, total, names, ps, heap) ==
  [status |-> Status("UNSUPPORTED", "ReadOutputTensors", ""), payloads |-> ps]

\* mutant: the output tensors are forgotten
ReleaseInputsOnly(ctx, heap) ==
  [ctx |-> [ctx EXCEPT !.input_tensors_ = <<>>],
   heap |-> ReleaseValues(ctx.input_tensors_, heap)]

\* Context::ReleaseOrtRunResources
ReleaseOrtRunResources(ctx, heap) ==
  LET h1 == ReleaseValues(ctx.input_tensors_, heap)
      h2 == ReleaseValues(ctx.output_tensors_, h1)
  IN [ctx |-> [ctx EXCEPT !.input_tensors_ = <<>>, !.output_tensors_ = <<>>],
      heap |-> h2]

\* ------------------------------------------------------------ the runtime
\* what OrtRun can do: succeed with outputs of the batch's leading dimension
\* or of another one, fail leaving the placeholders null, or fail after it
\* produced the first output
OrtOutcomes == {"ok", "bad_shape", "fail", "fail_partial"}

\* the runtime's computation: it passes its first input through, and with no
\* input it produces `lead` batch items of its own (origin 0)
RuntimeOutput(ctx, lead, heap) ==
  IF ctx.input_tensors_ # <<>> /\ ctx.input_tensors_[1] \in DOMAIN heap.tensors
  THEN heap.tensors[ctx.input_tensors_[1]].data
  ELSE InputBytes(0, lead * ItemBytes)

\* the runtime stores a new OrtValue in the first n output placeholders
RECURSIVE SetOutputs(_, _, _, _)
SetOutputs(n, outs, heap, t) ==
  IF n = 0 THEN [outs |-> outs, heap |-> heap]
  ELSE LET r == SetOutputs(n - 1, outs, heap, t)
           h == Fresh(r.heap.live)
       IN [outs |-> [r.outs EXCEPT ![n] = h],
           heap |-> [r.heap EXCEPT !.live = @ \cup {h},
                                   !.tensors = [g \in DOMAIN @ \cup {h} |->
                                                  IF g = h THEN t ELSE @[g]]]]

\* OrtRun(session_, ..., output_tensors_.data()) under RETURN_IF_ORT_ERROR
OrtRun(outcome, ctx, total, heap) ==
  LET n == Len(ctx.output_tensors_)
      lead == IF outcome = "bad_shape" THEN total + 1 ELSE total
      t == Tensor(lead, RuntimeOutput(ctx, lead, heap))
      k == CASE outcome = "fail" -> 0
             [] outcome = "fail_partial" -> IF n > 0 THEN 1 ELSE 0
             [] OTHER -> n
      r == SetOutputs(k, ctx.output_tensors_, heap, t)
  IN [status |-> IF outcome \in {"fail", "fail_partial"}
                 THEN Status("INTERNAL", "onnx_runtime_error", outcome)
                 ELSE Success,
      output_tensors_ |-> r.outs, heap |-> r.heap]

\* ------------------------------------------------------------ OnnxBackend::Run
Heap == [live |-> live, tensors |-> tensors, bad |-> badReleases]

SetHeap(heap) ==
  /\ live' = heap.live
  /\ tensors' = heap.tensors
  /\ badReleases' = heap.bad

OverrideMaps == {<<>>, <<"ov">>}

Ctx(w) == contexts_[ContextIndex(w)]

Logged(w, step) == log' = [log EXCEPT ![w] = Append(@, step)]

\* the scheduler calls Run(runner_idx, payloads, OnCompleteQueuedPayloads)
Call(w, ps) ==
  /\ pc[w] = "idle"
  /\ pc' = [pc EXCEPT ![w] = "entry"]
  /\ payloads' = [payloads EXCEPT ![w] = ps]
  /\ log' = [log EXCEPT ![w] = <<"Call">>]
  /\ UNCHANGED <<config, contexts_, heapVars, create, overrides, status,
                 total_batch_size, input_names, output_names, fanin, ortOutcome,
                 onComplete>>

\* mutant: the payload timers are handled before the runner index check
RunEntryTimersFirst(w) ==
  /\ pc[w] = "entry"
  /\ payloads' = [payloads EXCEPT ![w] =
         [i \in 1 .. Len(@) |->
            [@[i] EXCEPT !.queue_timer_ = FALSE, !.compute_timer = TRUE]]]
  /\ IF ~InRange(w)
     THEN /\ onComplete' = [onComplete EXCEPT ![w] =
                 Append(@, Status("INTERNAL", "runner_index", ""))]
          /\ pc' = [pc EXCEPT ![w] = "return"]
          /\ Logged(w, "OnComplete")
     ELSE /\ pc' = [pc EXCEPT ![w] = "run"]
          /\ Logged(w, "Timers")
          /\ UNCHANGED onComplete
  /\ UNCHANGED <<config, contexts_, heapVars, create, handoff, loader, overrides, status,
                 total_batch_size, input_names, output_names, fanin, ortOutcome>>

\* Run, lines 256-277: the runner index check, then the payload timers
RunEntry(w) ==
  /\ pc[w] = "entry"
  /\ IF ~InRange(w)
     THEN /\ onComplete' = [onComplete EXCEPT ![w] =
                 Append(@, Status("INTERNAL", "runner_index", ""))]
          /\ pc' = [pc EXCEPT ![w] = "return"]
          /\ Logged(w, "OnComplete")
          /\ UNCHANGED payloads
     ELSE /\ payloads' = [payloads EXCEPT ![w] =
                 [i \in 1 .. Len(@) |->
                    [@[i] EXCEPT !.queue_timer_ = FALSE, !.compute_timer = TRUE]]]
          /\ pc' = [pc EXCEPT ![w] = "run"]
          /\ Logged(w, "Timers")
          /\ UNCHANGED onComplete
  /\ UNCHANGED <<config, contexts_, heapVars, create, handoff, loader, overrides, status,
                 total_batch_size, input_names, output_names, fanin, ortOutcome>>

\* Context::Run, lines 298-328
ContextRun(w) ==
  /\ pc[w] = "run"
  /\ LET r == RunChecks(payloads[w], Ctx(w)) IN
       /\ status' = [status EXCEPT ![w] = r.status]
       /\ total_batch_size' = [total_batch_size EXCEPT ![w] = r.total]
       /\ pc' = [pc EXCEPT ![w] = IF r.done THEN "release" ELSE "fanin"]
  /\ Logged(w, "Checks")
  /\ UNCHANGED <<config, contexts_, heapVars, create, handoff, loader, payloads, overrides,
                 input_names, output_names, fanin, ortOutcome, onComplete>>

\* mutant: Context::Run goes on after a failed SetInputTensor
FanInContinue(w, name, next) ==
  LET r == SetInputTensor(Ctx(w), name, total_batch_size[w], payloads[w],
                          input_names[w], Heap) IN
  /\ contexts_' = [contexts_ EXCEPT ![ContextIndex(w)].input_tensors_ = r.input_tensors_]
  /\ input_names' = [input_names EXCEPT ![w] = r.input_names]
  /\ SetHeap(r.heap)
  /\ fanin' = [fanin EXCEPT ![w] = @ + 1]
  /\ pc' = [pc EXCEPT ![w] = next]
  /\ status' = [status EXCEPT ![w] = r.status]
  /\ Logged(w, "SetInputTensor")
  /\ UNCHANGED <<config, create, handoff, loader, payloads, overrides, total_batch_size,
                 output_names, ortOutcome, onComplete>>

\* one SetInputTensor call of Context::Run and the RETURN_IF_ERROR around it
FanIn(w, name, next) ==
  LET r == SetInputTensor(Ctx(w), name, total_batch_size[w], payloads[w],
                          input_names[w], Heap) IN
  /\ contexts_' = [contexts_ EXCEPT ![ContextIndex(w)].input_tensors_ = r.input_tensors_]
  /\ input_names' = [input_names EXCEPT ![w] = r.input_names]
  /\ SetHeap(r.heap)
  /\ IF IsOk(r.status)
     THEN /\ fanin' = [fanin EXCEPT ![w] = @ + 1]
          /\ pc' = [pc EXCEPT ![w] = next]
          /\ UNCHANGED status
     ELSE /\ status' = [status EXCEPT ![w] = r.status]
          /\ pc' = [pc EXCEPT ![w] = "release"]
          /\ UNCHANGED fanin
  /\ Logged(w, "SetInputTensor")
  /\ UNCHANGED <<config, create, handoff, loader, payloads, overrides, total_batch_size,
                 output_names, ortOutcome, onComplete>>

\* Context::Run, lines 340-352: the representative request's inputs
SetDeclaredInput(w) ==
  /\ pc[w] = "fanin"
  /\ fanin[w] <= Len(config.input)
  /\ FanIn(w, config.input[fanin[w]].name, "fanin")

\* Context::Run, lines 355-357: the representative's override map
GetInputOverride(w) ==
  /\ pc[w] = "fanin"
  /\ fanin[w] > Len(config.input)
  /\ \E ov \in OverrideMaps : overrides' = [overrides EXCEPT ![w] = ov]
  /\ fanin' = [fanin EXCEPT ![w] = 1]
  /\ pc' = [pc EXCEPT ![w] = "override"]
  /\ Logged(w, "GetInputOverride")
  /\ UNCHANGED <<config, contexts_, heapVars, create, handoff, loader, payloads, status,
                 total_batch_size, input_names, output_names, ortOutcome,
                 onComplete>>

\* Context::Run, lines 358-366
SetOverrideInput(w) ==
  /\ pc[w] = "override"
  /\ fanin[w] <= Len(overrides[w])
  /\ FanIn(w, overrides[w][fanin[w]], "override")

\* mutant: one placeholder is reserved whatever the number of outputs
ReserveOneOutput(w) ==
  /\ pc[w] = "override"
  /\ fanin[w] > Len(overrides[w])
  /\ output_names' = [output_names EXCEPT ![w] = Names(config.output)]
  /\ contexts_' = [contexts_ EXCEPT ![ContextIndex(w)].output_tensors_ =
                     @ \o <<nullptr>>]
  /\ pc' = [pc EXCEPT ![w] = "ortrun"]
  /\ Logged(w, "ReserveOutputs")
  /\ UNCHANGED <<config, heapVars, create, handoff, loader, payloads, overrides, status,
                 total_batch_size, input_names, fanin, ortOutcome, onComplete>>

\* Context::Run, lines 371-375
ReserveOutputs(w) ==
  /\ pc[w] = "override"
  /\ fanin[w] > Len(overrides[w])
  /\ output_names' = [output_names EXCEPT ![w] = Names(config.output)]
  /\ contexts_' = [contexts_ EXCEPT ![ContextIndex(w)].output_tensors_ =
                     @ \o [i \in 1 .. Len(config.output) |-> nullptr]]
  /\ pc' = [pc EXCEPT ![w] = "ortrun"]
  /\ Logged(w, "ReserveOutputs")
  /\ UNCHANGED <<config, heapVars, create, handoff, loader, payloads, overrides, status,
                 total_batch_size, input_names, fanin, ortOutcome, onComplete>>

\* mutant: a failed runtime invocation is tried once more
InvokeOrtRunRetry(w) ==
  /\ pc[w] = "ortrun"
  /\ \E outcome \in OrtOutcomes :
       LET r == OrtRun(outcome, Ctx(w), total_batch_size[w], Heap) IN
       /\ contexts_' = [contexts_ EXCEPT ![ContextIndex(w)].output_tensors_ =
                          r.output_tensors_]
       /\ SetHeap(r.heap)
       /\ status' = [status EXCEPT ![w] = r.status]
       /\ ortOutcome' = [ortOutcome EXCEPT ![w] = outcome]
       /\ pc' = [pc EXCEPT ![w] = IF IsOk(r.status) THEN "fanout"
                                  ELSE IF Count(log[w], "OrtRun") = 0 THEN "ortrun"
                                  ELSE "release"]
  /\ Logged(w, "OrtRun")
  /\ UNCHANGED <<config, create, handoff, loader, payloads, overrides, total_batch_size,
                 input_names, output_names, fanin, onComplete>>

\* mutant: the status OrtRun returns is not looked at
InvokeOrtRunUnchecked(w) ==
  /\ pc[w] = "ortrun"
  /\ \E outcome \in OrtOutcomes :
       LET r == OrtRun(outcome, Ctx(w), total_batch_size[w], Heap) IN
       /\ contexts_' = [contexts_ EXCEPT ![ContextIndex(w)].output_tensors_ =
                          r.output_tensors_]
       /\ SetHeap(r.heap)
       /\ ortOutcome' = [ortOutcome EXCEPT ![w] = outcome]
  /\ pc' = [pc EXCEPT ![w] = "fanout"]
  /\ Logged(w, "OrtRun")
  /\ UNCHANGED <<config, create, handoff, loader, payloads, overrides, status,
                 total_batch_size, input_names, output_names, fanin, onComplete>>

\* Context::Run, lines 378-381
InvokeOrtRun(w) ==
  /\ pc[w] = "ortrun"
  /\ \E outcome \in OrtOutcomes :
       LET r == OrtRun(outcome, Ctx(w), total_batch_size[w], Heap) IN
       /\ contexts_' = [contexts_ EXCEPT ![ContextIndex(w)].output_tensors_ =
                          r.output_tensors_]
       /\ SetHeap(r.heap)
       /\ status' = [status EXCEPT ![w] = r.status]
       /\ ortOutcome' = [ortOutcome EXCEPT ![w] = outcome]
       /\ pc' = [pc EXCEPT ![w] = IF IsOk(r.status) THEN "fanout" ELSE "release"]
  /\ Logged(w, "OrtRun")
  /\ UNCHANGED <<config, create, handoff, loader, payloads, overrides, total_batch_size,
                 input_names, output_names, fanin, onComplete>>

\* Context::Run, line 385
ReadOutputs(w) ==
  /\ pc[w] = "fanout"
  /\ LET r == ReadOutputTensors(Ctx(w), total_batch_size[w], output_names[w],
                                payloads[w], Heap) IN
       /\ status' = [status EXCEPT ![w] = r.status]
       /\ payloads' = [payloads EXCEPT ![w] = r.payloads]
  /\ pc' = [pc EXCEPT ![w] = "release"]
  /\ Logged(w, "ReadOutputTensors")
  /\ UNCHANGED <<config, contexts_, heapVars, create, handoff, loader, overrides,
                 total_batch_size, input_names, output_names, fanin, ortOutcome,
                 onComplete>>

\* mutant: Run hands the status to the callback without releasing
ReleaseSkipped(w) ==
  /\ pc[w] = "release"
  /\ pc' = [pc EXCEPT ![w] = "complete"]
  /\ Logged(w, "Release")
  /\ UNCHANGED <<config, contexts_, heapVars, create, handoff, loader, payloads, overrides,
                 status, total_batch_size, input_names, output_names, fanin,
                 ortOutcome, onComplete>>

\* mutant: a failed run keeps its tensors
ReleaseOnSuccess(w) ==
  /\ pc[w] = "release"
  /\ LET r == IF IsOk(status[w]) THEN ReleaseOrtRunResources(Ctx(w), Heap)
              ELSE [ctx |-> Ctx(w), heap |-> Heap] IN
       /\ contexts_' = [contexts_ EXCEPT ![ContextIndex(w)] = r.ctx]
       /\ SetHeap(r.heap)
  /\ pc' = [pc EXCEPT ![w] = "complete"]
  /\ Logged(w, "Release")
  /\ UNCHANGED <<config, create, handoff, loader, payloads, overrides, status, total_batch_size,
                 input_names, output_names, fanin, ortOutcome, onComplete>>

\* mutant: the release clears the containers of every context
ReleaseEveryContext(w) ==
  /\ pc[w] = "release"
  /\ LET r == ReleaseOrtRunResources(Ctx(w), Heap) IN
       /\ contexts_' = [c \in DOMAIN contexts_ |->
                          IF c = ContextIndex(w) THEN r.ctx
                          ELSE [contexts_[c] EXCEPT !.input_tensors_ = <<>>,
                                                    !.output_tensors_ = <<>>]]
       /\ SetHeap(r.heap)
  /\ pc' = [pc EXCEPT ![w] = "complete"]
  /\ Logged(w, "Release")
  /\ UNCHANGED <<config, create, handoff, loader, payloads, overrides, status, total_batch_size,
                 input_names, output_names, fanin, ortOutcome, onComplete>>

\* Run, line 281
Release(w) ==
  /\ pc[w] = "release"
  /\ LET r == ReleaseOrtRunResources(Ctx(w), Heap) IN
       /\ contexts_' = [contexts_ EXCEPT ![ContextIndex(w)] = r.ctx]
       /\ SetHeap(r.heap)
  /\ pc' = [pc EXCEPT ![w] = "complete"]
  /\ Logged(w, "Release")
  /\ UNCHANGED <<config, create, handoff, loader, payloads, overrides, status, total_batch_size,
                 input_names, output_names, fanin, ortOutcome, onComplete>>

\* mutant: the callback is skipped when the run failed
CompleteOnSuccess(w) ==
  /\ pc[w] = "complete"
  /\ onComplete' = [onComplete EXCEPT ![w] =
                      IF IsOk(status[w]) THEN Append(@, status[w]) ELSE @]
  /\ pc' = [pc EXCEPT ![w] = "return"]
  /\ Logged(w, "OnComplete")
  /\ UNCHANGED <<config, contexts_, heapVars, create, payloads, overrides,
                 status, total_batch_size, input_names, output_names, fanin,
                 ortOutcome>>

\* Run, line 282
Complete(w) ==
  /\ pc[w] = "complete"
  /\ onComplete' = [onComplete EXCEPT ![w] = Append(@, status[w])]
  /\ pc' = [pc EXCEPT ![w] = "return"]
  /\ Logged(w, "OnComplete")
  /\ UNCHANGED <<config, contexts_, heapVars, create, payloads, overrides,
                 status, total_batch_size, input_names, output_names, fanin,
                 ortOutcome>>

\* Run returns to the scheduler: its locals and arguments go out of scope
Return(w) ==
  /\ pc[w] = "return"
  /\ pc' = [pc EXCEPT ![w] = "idle"]
  /\ payloads' = [payloads EXCEPT ![w] = <<>>]
  /\ overrides' = [overrides EXCEPT ![w] = <<>>]
  /\ status' = [status EXCEPT ![w] = Success]
  /\ total_batch_size' = [total_batch_size EXCEPT ![w] = 0]
  /\ input_names' = [input_names EXCEPT ![w] = <<>>]
  /\ output_names' = [output_names EXCEPT ![w] = <<>>]
  /\ fanin' = [fanin EXCEPT ![w] = 1]
  /\ ortOutcome' = [ortOutcome EXCEPT ![w] = "none"]
  /\ onComplete' = [onComplete EXCEPT ![w] = <<>>]
  /\ log' = [log EXCEPT ![w] = <<>>]
  /\ UNCHANGED <<config, contexts_, heapVars, create, handoff, loader>>

\* the steps of Run up to the completion callback, and the return
RunStep(w) ==
  \/ RunEntry(w)
  \/ ContextRun(w)
  \/ SetDeclaredInput(w)
  \/ GetInputOverride(w)
  \/ SetOverrideInput(w)
  \/ ReserveOutputs(w)
  \/ InvokeOrtRun(w)
  \/ ReadOutputs(w)
  \/ Release(w)
  \/ Return(w)

Step(w) == RunStep(w) \/ (Complete(w) /\ UNCHANGED <<handoff, loader>>)

\* ------------------------------------------------------------- specification
IO(name, dt) == [name |-> name, data_type |-> dt]

\* the configurations Run is explored under: batching unsupported or up to
\* MaxPayloadBatch, one declared input or none (with none, Context::Run gets
\* past the SetInputTensor calls and reaches OrtRun)
RunConfigs ==
  {[max_batch_size |-> m, input |-> ins,
    output |-> <<IO("y", "TYPE_FP32"), IO("z", "TYPE_FP32")>>] :
     m \in {0, MaxPayloadBatch}, ins \in {<<>>, <<IO("a", "TYPE_FP32")>>}}

\* a context as CreateExecutionContext leaves it on success
Loaded(ctx) == [ctx EXCEPT !.session_ = 1, !.allocator_info_ = 1]

Mbs(cfg) == IF cfg.max_batch_size <= 0 THEN NO_BATCHING ELSE cfg.max_batch_size

\* no Run call has been made and the runtime holds no tensor
\* a tensorflow::SignatureDef nothing was assigned to
NoSignature == [key |-> "unset", session |-> nullptr]

\* a default-constructed tensorflow::MetaGraphDef, an empty TF_Buffer
EmptyMetaGraph == [tags |-> {}, signature_def |-> {}]

\* no call of LoadSavedModel has been made
NoLoad ==
  [pc |-> "idle", calls |-> 0, session |-> nullptr, sig |-> NoSignature,
   sig_given |-> FALSE, sig_before |-> NoSignature, tfstatus |-> "none",
   metagraph |-> "none", buffer |-> EmptyMetaGraph, code |-> "TF_OK",
   meta_graph_def |-> EmptyMetaGraph, ret |-> Success, open |-> {}, badDeletes |-> 0]

NoRun ==
  /\ live = {}
  /\ tensors = <<>>
  /\ badReleases = 0
  /\ pc = [w \in Runners |-> "idle"]
  /\ payloads = [w \in Runners |-> <<>>]
  /\ overrides = [w \in Runners |-> <<>>]
  /\ status = [w \in Runners |-> Success]
  /\ total_batch_size = [w \in Runners |-> 0]
  /\ input_names = [w \in Runners |-> <<>>]
  /\ output_names = [w \in Runners |-> <<>>]
  /\ fanin = [w \in Runners |-> 1]
  /\ ortOutcome = [w \in Runners |-> "none"]
  /\ onComplete = [w \in Runners |-> <<>>]
  /\ log = [w \in Runners |-> <<>>]
  /\ handoff = [w \in Runners |-> [handed |-> 0, done |-> <<>>]]
  /\ loader = NoLoad

Init ==
  /\ config \in RunConfigs
  /\ contexts_ = <<Loaded(Context("g_0_cpu", NO_GPU_DEVICE, Mbs(config))),
                   Loaded(Context("g_1_cpu", NO_GPU_DEVICE, Mbs(config)))>>
  /\ NoRun
  /\ create = "done"

\* no Run call is in progress
Quiescent == \A w \in Runners : pc[w] = "idle"

\* one caller: a Run call starts when no other is in progress
Dispatch(w) ==
  /\ Quiescent
  /\ \E ps \in Groups : Call(w, ps)
  /\ UNCHANGED <<handoff, loader>>

Next == \E w \in Runners : Dispatch(w) \/ Step(w)

Spec == Init /\ [][Next]_vars

\* ------------------------------------------------------ concurrent runners
\* The scheduler runs one thread per runner; thread w calls Run(w, ...) for
\* one Group after the other, and the threads run in parallel.
ConcGroups == {<<Payload(ok, 1, ItemBytes)>> : ok \in BOOLEAN}

DispatchConc(w) == (\E ps \in ConcGroups : Call(w, ps)) /\ UNCHANGED <<handoff, loader>>

NextConc == \E w \in Runners : DispatchConc(w) \/ Step(w)

InitConc == Init /\ config.max_batch_size = 0

SpecConc == InitConc /\ [][NextConc]_vars

\* ------------------------------------------------ one worker per context
\* The scheduler thread of a context hands its Groups to Run one after the
\* other: it numbers them, and notes every completion callback it receives
\* with the number of the Group it handed last.
SeqGroups == {<<>>} \cup {<<Payload(ok, 1, ItemBytes)>> : ok \in BOOLEAN}

HandOff(w) ==
  /\ InRange(w)
  /\ Quiescent
  /\ handoff[w].handed < MaxGroups
  /\ \E ps \in SeqGroups : Call(w, ps)
  /\ handoff' = [handoff EXCEPT ![w].handed = @ + 1]
  /\ UNCHANGED loader

Callback(w) ==
  /\ Complete(w)
  /\ handoff' = [handoff EXCEPT ![w].done =
                   IF Len(onComplete'[w]) > Len(onComplete[w])
                   THEN Append(@, [group |-> handoff[w].handed,
                                   ok |-> IsOk(onComplete'[w][Len(onComplete'[w])])])
                   ELSE @]
  /\ UNCHANGED loader

NextSeq == \E w \in Runners : HandOff(w) \/ RunStep(w) \/ Callback(w)

SpecSeq == Init /\ [][NextSeq]_vars

\* ------------------------------------------- CreateExecutionContexts
\* names the loaded session exposes (InputNames / OutputNames)
InputNames(session) == {"a", "b"}
OutputNames(session) == {"y", "z"}

\* ConvertDataType(DataType): the runtime-native type, or UNDEFINED
ConvertDataType(data_type) ==
  IF data_type = "TYPE_INVALID" THEN "UNDEFINED" ELSE data_type

CheckAllowedModelInput(io, names) ==
  IF io.name \in names THEN Success
  ELSE Status("INVALID_ARG", "unexpected_input", io.name)

CheckAllowedModelOutput(io, names) ==
  IF io.name \in names THEN Success
  ELSE Status("INVALID_ARG", "unexpected_output", io.name)

\* Context::ValidateInputs: the first declared input that fails a check
RECURSIVE ValidateInputs(_, _)
ValidateInputs(session, ios) ==
  IF ios = <<>> THEN Success
  ELSE LET io == Head(ios)
           allowed == CheckAllowedModelInput(io, InputNames(session))
       IN IF ~IsOk(allowed) THEN allowed
          ELSE IF ConvertDataType(io.data_type) = "UNDEFINED"
          THEN Status("INTERNAL", "unsupported_input_datatype", io.name)
          ELSE ValidateInputs(session, Tail(ios))

\* mutant: the datatype of an output is not looked at
RECURSIVE ValidateOutputNames(_, _)
ValidateOutputNames(session, ios) ==
  IF ios = <<>> THEN Success
  ELSE LET allowed == CheckAllowedModelOutput(Head(ios), OutputNames(session))
       IN IF ~IsOk(allowed) THEN allowed
          ELSE ValidateOutputNames(session, Tail(ios))

\* Context::ValidateOutputs
RECURSIVE ValidateOutputs(_, _)
ValidateOutputs(session, ios) ==
  IF ios = <<>> THEN Success
  ELSE LET io == Head(ios)
           allowed == CheckAllowedModelOutput(io, OutputNames(session))
       IN IF ~IsOk(allowed) THEN allowed
          ELSE IF ConvertDataType(io.data_type) = "UNDEFINED"
          THEN Status("INTERNAL", "unsupported_output_datatype", io.name)
          ELSE ValidateOutputs(session, Tail(ios))

\* instance names built by CreateExecutionContexts
CpuInstanceName(group, c) == group.name \o "_" \o ToString(c) \o "_cpu"
\* mutant: the name of a GPU instance leaves out the device
GpuInstanceNameNoDevice(group, c, gpu_device) ==
  group.name \o "_" \o ToString(c) \o "_gpu"

GpuInstanceName(group, c, gpu_device) ==
  group.name \o "_" \o ToString(c) \o "_gpu" \o ToString(gpu_device)

\* mutant: a GPU replica is created on the first listed device only
ReplicaFirstDevice(group, c) ==
  IF group.kind = "KIND_CPU"
  THEN <<[name |-> CpuInstanceName(group, c), gpu_device |-> NO_GPU_DEVICE]>>
  ELSE <<[name |-> GpuInstanceName(group, c, group.gpus[1]),
          gpu_device |-> group.gpus[1]]>>

\* the instances of replica c of a group, in creation order
ReplicaInstances(group, c) ==
  IF group.kind = "KIND_CPU"
  THEN <<[name |-> CpuInstanceName(group, c), gpu_device |-> NO_GPU_DEVICE]>>
  ELSE [d \in 1 .. Len(group.gpus) |->
          [name |-> GpuInstanceName(group, c, group.gpus[d]),
           gpu_device |-> group.gpus[d]]]

RECURSIVE GroupInstances(_, _)
GroupInstances(group, c) ==
  IF c >= group.count THEN <<>>
  ELSE ReplicaInstances(group, c) \o GroupInstances(group, c + 1)

\* the CreateExecutionContext calls of the loops of CreateExecutionContexts
RECURSIVE Instances(_)
Instances(groups) ==
  IF groups = <<>> THEN <<>>
  ELSE GroupInstances(Head(groups), 0) \o Instances(Tail(groups))

\* what the runtime does in one CreateExecutionContext call
SessionOutcomes == {"ok", "create_fail", "allocator_fail"}

\* mutant: every instance uses the default model file
DefaultModelFilename(gpu_device, cc) == config.default_model_filename

\* CreateExecutionContext, lines 134-158: the model file of an instance
SelectModelFilename(gpu_device, cc) ==
  IF gpu_device = NO_GPU_DEVICE THEN config.default_model_filename
  ELSE IF cc \in DOMAIN config.cc_model_filenames
  THEN config.cc_model_filenames[cc]
  ELSE config.default_model_filename

\* CreateExecutionContext(instance_name, gpu_device, env, options, paths):
\* the status it returns, contexts_ as it leaves it and the model file it
\* handed to OrtCreateSession ("": none)
CreateExecutionContext(instance_name, gpu_device, cuda, paths, outcome, ctxs) ==
  LET cuerr == gpu_device # NO_GPU_DEVICE /\ cuda[gpu_device] = "error"
      cc == IF gpu_device = NO_GPU_DEVICE THEN "" ELSE cuda[gpu_device]
      cc_model_filename == SelectModelFilename(gpu_device, cc)
      added == Append(ctxs, Context(instance_name, gpu_device, Mbs(config)))
      n == Len(added)
      withSession == [added EXCEPT ![n].session_ = 1]
      inputs == ValidateInputs(1, config.input)
      outputs == ValidateOutputs(1, config.output)
  IN IF cuerr
     THEN [status |-> Status("INTERNAL", "cuda_properties", ""), contexts |-> ctxs,
           model |-> ""]
     ELSE IF cc_model_filename \notin paths
     THEN [status |-> Status("INTERNAL", "model_not_found", cc_model_filename),
           contexts |-> ctxs, model |-> ""]
     ELSE IF outcome = "create_fail"
     THEN [status |-> Status("INTERNAL", "onnx_runtime_error", "OrtCreateSession"),
           contexts |-> added, model |-> cc_model_filename]
     ELSE IF ~IsOk(inputs)
     THEN [status |-> inputs, contexts |-> withSession, model |-> cc_model_filename]
     ELSE IF ~IsOk(outputs)
     THEN [status |-> outputs, contexts |-> withSession, model |-> cc_model_filename]
     ELSE IF outcome = "allocator_fail"
     THEN [status |-> Status("INTERNAL", "onnx_runtime_error",
                             "OrtCreateCpuAllocatorInfo"),
           contexts |-> withSession, model |-> cc_model_filename]
     ELSE [status |-> Success,
           contexts |-> [withSession EXCEPT ![n].allocator_info_ = 1],
           model |-> cc_model_filename]

\* CreateExecutionContexts(env, paths) is called
CreateExecutionContexts ==
  /\ create.pc = "idle"
  /\ create.calls < MaxCreateCalls
  /\ create' = [create EXCEPT !.pc = "loop", !.k = 1, !.total_context_cnt = 0,
                              !.calls = @ + 1, !.result = Success, !.last = <<>>,
                              !.base = Len(contexts_)]
  /\ UNCHANGED <<config, contexts_, heapVars, runVars, handoff, loader>>

\* mutant: a failed instance is skipped and the loops go on
CreateInstanceContinue ==
  /\ create.pc = "loop"
  /\ create.k <= Len(Instances(config.instance_group))
  /\ \E outcome \in SessionOutcomes :
       LET inst == Instances(config.instance_group)[create.k]
           r == CreateExecutionContext(inst.name, inst.gpu_device, create.cuda,
                                       create.paths, outcome, contexts_)
       IN /\ contexts_' = r.contexts
          /\ create' =
               [create EXCEPT
                  !.last = [name |-> inst.name, gpu_device |-> inst.gpu_device,
                            status |-> r.status, outcome |-> outcome,
                            model |-> r.model, before |-> Len(contexts_)],
                  !.result = r.status,
                  !.k = @ + 1,
                  !.total_context_cnt = IF IsOk(r.status) THEN @ + 1 ELSE @]
  /\ UNCHANGED <<config, heapVars, runVars, handoff, loader>>

\* one iteration of the loops: RETURN_IF_ERROR(CreateExecutionContext(...))
CreateInstance ==
  /\ create.pc = "loop"
  /\ create.k <= Len(Instances(config.instance_group))
  /\ \E outcome \in SessionOutcomes :
       LET inst == Instances(config.instance_group)[create.k]
           r == CreateExecutionContext(inst.name, inst.gpu_device, create.cuda,
                                       create.paths, outcome, contexts_)
       IN /\ contexts_' = r.contexts
          /\ create' =
               [create EXCEPT
                  !.last = [name |-> inst.name, gpu_device |-> inst.gpu_device,
                            status |-> r.status, outcome |-> outcome,
                            model |-> r.model, before |-> Len(contexts_)],
                  !.result = r.status,
                  !.pc = IF IsOk(r.status) THEN "loop" ELSE "idle",
                  !.k = IF IsOk(r.status) THEN @ + 1 ELSE @,
                  !.total_context_cnt = IF IsOk(r.status) THEN @ + 1 ELSE @]
  /\ UNCHANGED <<config, heapVars, runVars, handoff, loader>>

\* after the loops: SetConfiguredScheduler(total_context_cnt, ...)
SetConfiguredScheduler ==
  /\ create.pc = "loop"
  /\ create.k > Len(Instances(config.instance_group))
  /\ create' = [create EXCEPT !.pc = "idle", !.runners = create.total_context_cnt,
                              !.result = Success]
  /\ UNCHANGED <<config, contexts_, heapVars, runVars, handoff, loader>>

InstanceGroup(name, kind, count, gpus) ==
  [name |-> name, kind |-> kind, count |-> count, gpus |-> gpus]

\* the configurations context creation is explored under
CreateConfigs ==
  {[max_batch_size |-> m, input |-> ins, output |-> outs, instance_group |-> gs,
    default_model_filename |-> "model.onnx", cc_model_filenames |-> ccs] :
     m \in {0, 2},
     ins \in {<<IO("a", "TYPE_FP32")>>,
              <<IO("a", "TYPE_FP32"), IO("c", "TYPE_FP32")>>,
              <<IO("a", "TYPE_FP32"), IO("b", "TYPE_INVALID")>>},
     outs \in {<<IO("y", "TYPE_FP32")>>,
               <<IO("y", "TYPE_FP32"), IO("w", "TYPE_FP32")>>,
               <<IO("y", "TYPE_INVALID")>>},
     gs \in {<<InstanceGroup("g", "KIND_CPU", 2, <<>>)>>,
             <<InstanceGroup("g", "KIND_GPU", 2, <<0, 1>>)>>,
             <<InstanceGroup("g", "KIND_CPU", 1, <<>>),
               InstanceGroup("h", "KIND_GPU", 1, <<0>>)>>},
     ccs \in {<<>>, [cc \in {"7.0"} |-> "model_cc70.onnx"]}}

\* cudaGetDeviceProperties per device: the compute capability, or an error
CudaDevices == {[d \in {0, 1} |-> IF d = 0 THEN "7.0" ELSE x] : x \in {"6.1", "error"}}

\* the largest batch the model files support, as the runtime would report it
RuntimeMaxBatch == {1, 4}

InitCreate ==
  /\ config \in CreateConfigs
  /\ contexts_ = <<>>
  /\ NoRun
  /\ \E cuda \in CudaDevices, runtime_max \in RuntimeMaxBatch :
       \E paths \in {{"model.onnx", "model_cc70.onnx"}, {"model.onnx"}, {"model_cc70.onnx"}} :
         create = [pc |-> "idle", k |-> 1, total_context_cnt |-> 0, calls |-> 0,
                   result |-> Success, last |-> <<>>, runners |-> -1,
                   base |-> 0, cuda |-> cuda, paths |-> paths,
                   runtime_max |-> runtime_max, destructed |-> <<>>]

NextCreate ==
  \/ CreateExecutionContexts
  \/ CreateInstance
  \/ SetConfiguredScheduler

SpecCreate == InitCreate /\ [][NextCreate]_vars

\* ------------------------------------------------- the life of a backend
\* Load (one call of CreateExecutionContexts), Runs handed by the workers of
\* the configured scheduler, and the destruction of the backend with its
\* contexts, which comes after the load returned, failed or not, and when no
\* Run is in progress.

\* mutant: the destructor releases session and allocator info unconditionally
DestroyContextUnchecked(ctx, heap) ==
  [heap |-> ReleaseOrtRunResources(ctx, heap).heap,
   OrtReleaseSession |-> TRUE,
   OrtReleaseAllocatorInfo |-> TRUE]

\* Context::~Context: the heap it leaves and the releases it makes
DestroyContext(ctx, heap) ==
  [heap |-> ReleaseOrtRunResources(ctx, heap).heap,
   OrtReleaseSession |-> ctx.session_ # nullptr,
   OrtReleaseAllocatorInfo |-> ctx.allocator_info_ # nullptr]

\* the destructors of the elements of contexts_, in order
RECURSIVE DestroyContexts(_, _)
DestroyContexts(ctxs, heap) ==
  IF ctxs = <<>> THEN [heap |-> heap, destructed |-> <<>>]
  ELSE LET d == DestroyContext(Head(ctxs), heap)
           r == DestroyContexts(Tail(ctxs), d.heap)
       IN [heap |-> r.heap,
           destructed |-> <<[ctx |-> Head(ctxs),
                             OrtReleaseSession |-> d.OrtReleaseSession,
                             OrtReleaseAllocatorInfo |-> d.OrtReleaseAllocatorInfo]>>
                          \o r.destructed]

\* the backend is destroyed: contexts_ goes with it
Destroy ==
  /\ create.pc = "idle"
  /\ create.calls >= 1
  /\ Quiescent
  /\ LET r == DestroyContexts(contexts_, Heap) IN
       /\ SetHeap(r.heap)
       /\ create' = [create EXCEPT !.pc = "destroyed", !.destructed = r.destructed]
  /\ contexts_' = <<>>
  /\ UNCHANGED <<config, runVars, handoff, loader>>

\* the load of the backend
Load == create.calls = 0 /\ CreateExecutionContexts

\* a worker of the configured scheduler hands a Group to Run
HandOffLife(w) == create.pc = "idle" /\ w < create.runners /\ HandOff(w)

LifeConfigs ==
  {[max_batch_size |-> 0, input |-> ins, output |-> outs,
    instance_group |-> <<InstanceGroup("g", "KIND_CPU", 2, <<>>)>>,
    default_model_filename |-> "model.onnx", cc_model_filenames |-> <<>>] :
     ins \in {<<>>, <<IO("a", "TYPE_FP32")>>},
     outs \in {<<IO("y", "TYPE_FP32")>>, <<IO("y", "TYPE_INVALID")>>}}

InitLife ==
  /\ config \in LifeConfigs
  /\ contexts_ = <<>>
  /\ NoRun
  /\ create = [pc |-> "idle", k |-> 1, total_context_cnt |-> 0, calls |-> 0,
               result |-> Success, last |-> <<>>, runners |-> -1,
               base |-> 0, cuda |-> [d \in {0, 1} |-> "7.0"],
               paths |-> {"model.onnx"}, runtime_max |-> 1, destructed |-> <<>>]

NextLife ==
  \/ Load
  \/ CreateInstance
  \/ SetConfiguredScheduler
  \/ \E w \in Runners : HandOffLife(w) \/ RunStep(w) \/ Callback(w)
  \/ Destroy

SpecLife == InitLife /\ [][NextLife]_vars

\* ------------------------------------------------------- LoadSavedModel
\* onnx_utils.h, lines 230-291.  The caller owns *session and *sig; the
\* TensorFlow runtime owns the sessions it has opened (loader.open).
MaxLoads == 2

TFCodes == {"TF_OK", "TF_NOT_FOUND", "TF_INTERNAL"}
Tags == {"serve", "gpu"}
SignatureKeys == {"serving_default", "predict"}

\* FromTFError: the request status code of a TensorFlow status code
FromTFError(code) ==
  CASE code = "TF_OK" -> "SUCCESS"
    [] code = "TF_NOT_FOUND" -> "NOT_FOUND"
    [] OTHER -> "INTERNAL"

\* TF_DeleteStatus / TF_DeleteBuffer on an object in state st
TFDelete(st) == IF st = "new" THEN "deleted" ELSE st
BadDelete(st) == IF st = "new" THEN 0 ELSE 1

\* lines 236-241: TF_NewStatus, TF_NewBuffer and
\* *session = TF_LoadSessionFromSavedModel(..., metagraph, tfstatus)
LoadSessionFromSavedModel ==
  /\ loader.pc = "idle"
  /\ loader.calls < MaxLoads
  /\ \E code \in TFCodes, tags \in SUBSET Tags, keys \in SUBSET SignatureKeys,
        sig_given \in BOOLEAN :
       loader' = [loader EXCEPT
         !.pc = "loaded", !.calls = @ + 1,
         !.tfstatus = "new", !.metagraph = "new", !.code = code,
         !.session = IF code = "TF_OK" THEN loader.calls + 1 ELSE nullptr,
         !.open = IF code = "TF_OK" THEN @ \cup {loader.calls + 1} ELSE @,
         !.buffer = IF code = "TF_OK"
                    THEN [tags |-> tags, signature_def |-> keys]
                    ELSE EmptyMetaGraph,
         !.meta_graph_def = EmptyMetaGraph,
         !.sig_given = sig_given, !.sig_before = loader.sig, !.ret = Success]
  /\ UNCHANGED <<config, contexts_, heapVars, runVars, create, handoff>>

\* lines 242-249: the runtime reported an error
LoadFailed ==
  /\ loader.pc = "loaded"
  /\ loader.code # "TF_OK"
  /\ loader' = [loader EXCEPT
       !.ret = Status(FromTFError(loader.code), "tf_error", loader.code),
       !.metagraph = TFDelete(@), !.tfstatus = TFDelete(@),
       !.badDeletes = @ + BadDelete(loader.metagraph) + BadDelete(loader.tfstatus),
       !.session = nullptr,
       !.pc = "returned"]
  /\ UNCHANGED <<config, contexts_, heapVars, runVars, create, handoff>>

\* lines 251-255: the metagraph is parsed, buffer and status are deleted
ParseMetaGraph ==
  /\ loader.pc = "loaded"
  /\ loader.code = "TF_OK"
  /\ loader' = [loader EXCEPT
       !.meta_graph_def = loader.buffer,
       !.metagraph = TFDelete(@), !.tfstatus = TFDelete(@),
       !.badDeletes = @ + BadDelete(loader.metagraph) + BadDelete(loader.tfstatus),
       !.pc = "tags"]
  /\ UNCHANGED <<config, contexts_, heapVars, runVars, create, handoff>>

\* lines 259-271: the "serve" tag
VerifyServeTag ==
  /\ loader.pc = "tags"
  /\ loader' = IF "serve" \in loader.meta_graph_def.tags
                THEN [loader EXCEPT !.pc = "signature"]
                ELSE [loader EXCEPT !.ret = Status("INTERNAL", "serve_tag", ""),
                                    !.pc = "returned"]
  /\ UNCHANGED <<config, contexts_, heapVars, runVars, create, handoff>>

\* lines 273-290: the "serving_default" signature, *sig and the return
VerifySignature ==
  /\ loader.pc = "signature"
  /\ loader' = IF "serving_default" \notin loader.meta_graph_def.signature_def
                THEN [loader EXCEPT !.ret = Status("INVALID_ARG", "signature", ""),
                                    !.pc = "returned"]
                ELSE [loader EXCEPT
                        !.sig = IF loader.sig_given
                                THEN [key |-> "serving_default", session |-> loader.session]
                                ELSE @,
                        !.ret = Success, !.pc = "returned"]
  /\ UNCHANGED <<config, contexts_, heapVars, runVars, create, handoff>>

\* the caller has the status and may call again
LoadReturned ==
  /\ loader.pc = "returned"
  /\ loader' = [loader EXCEPT !.pc = "idle"]
  /\ UNCHANGED <<config, contexts_, heapVars, runVars, create, handoff>>

InitLoad ==
  /\ config \in LifeConfigs
  /\ contexts_ = <<>>
  /\ NoRun
  /\ create = "done"

NextLoad ==
  \/ LoadSessionFromSavedModel
  \/ LoadFailed
  \/ ParseMetaGraph
  \/ VerifyServeTag
  \/ VerifySignature
  \/ LoadReturned

SpecLoad == InitLoad /\ [][NextLoad]_vars

\* ------------------------------------------------------------------ claims
Did(w, step) == Count(log[w], step) > 0

\* the call of runner w has passed the release of the run resources
Released(w) == pc[w] \in {"complete", "return"}

SizesMatch(ps) ==
  \A i \in 1 .. Len(ps) : ps[i].byte_size = ps[i].batch_size * ItemBytes

NothingWritten(ps) == \A i \in 1 .. Len(ps) : ps[i].written = <<>>

EveryStatusOk(ps) == \A i \in 1 .. Len(ps) : ps[i].status_ok

\* C1: every call of Run invokes the completion callback exactly once, with
\* the aggregate status, before it returns: no callback has been made before
\* the last statement of Run, exactly one has been made when Run returns, for
\* a runner index in range and out of range.
C1_CallbackExactlyOnce ==
  \A w \in Runners :
    /\ Len(onComplete[w]) = (IF pc[w] = "return" THEN 1 ELSE 0)
    /\ pc[w] = "return" =>
         onComplete[w][1] = (IF InRange(w) THEN status[w]
                             ELSE Status("INTERNAL", "runner_index", ""))

C1_Witness ==
  \E w \in Runners :
    /\ pc[w] = "return" /\ InRange(w)
    /\ Len(onComplete[w]) = 1 /\ ~IsOk(onComplete[w][1])
    /\ Did(w, "OrtRun")

\* C2: on a valid runner index, when the completion callback is invoked the
\* context's input_tensors_ and output_tensors_ are empty and the live tensor
\* handles are those of before the call (none: calls do not overlap and the
\* first one starts with none), on every path.
C2_ReleasedBeforeCallback ==
  \A w \in Runners :
    (InRange(w) /\ Released(w)) =>
      /\ Ctx(w).input_tensors_ = <<>>
      /\ Ctx(w).output_tensors_ = <<>>
      /\ live = {}
      /\ badReleases = 0

C2_Witness ==
  \E w \in Runners :
    /\ InRange(w) /\ pc[w] = "complete"
    /\ ortOutcome[w] = "fail_partial"
    /\ live = {}

\* C3 as stated: a Group whose total batch size exceeds the context's maximum
\* batch size is rejected with an error, no input tensor is built and the
\* runtime is not invoked.
C3_Original ==
  \A w \in Runners :
    (InRange(w) /\ Did(w, "Checks")
       /\ TotalBatchSize(payloads[w]) > Ctx(w).max_batch_size_) =>
      /\ status[w].kind \in {"batch_size", "payload_status"}
      /\ ~Did(w, "SetInputTensor") /\ ~Did(w, "OrtRun")

\* C3 amended: a Group of OK payloads whose total batch size is not 1 and
\* exceeds the context's maximum batch size is rejected with the batch-size
\* error before any input tensor is built, any output placeholder is reserved
\* and any runtime invocation.
C3_OversizeRejected ==
  \A w \in Runners :
    (InRange(w) /\ Did(w, "Checks")
       /\ EveryStatusOk(payloads[w])
       /\ TotalBatchSize(payloads[w]) # 1
       /\ TotalBatchSize(payloads[w]) > Ctx(w).max_batch_size_) =>
      /\ status[w] = Status("INTERNAL", "batch_size", Ctx(w).name_)
      /\ pc[w] \in {"release", "complete", "return"}
      /\ ~Did(w, "SetInputTensor") /\ ~Did(w, "ReserveOutputs") /\ ~Did(w, "OrtRun")

C3_Witness ==
  \E w \in Runners :
    /\ InRange(w) /\ pc[w] = "return"
    /\ Ctx(w).max_batch_size_ > 0
    /\ TotalBatchSize(payloads[w]) = Ctx(w).max_batch_size_ + 1
    /\ onComplete[w] = <<Status("INTERNAL", "batch_size", Ctx(w).name_)>>

\* the Groups the round trip and the two-outcome properties are about: OK
\* payloads, 1 <= total <= max_batch_size (or total = 1)
Admissible(w) ==
  /\ InRange(w)
  /\ Len(payloads[w]) >= 1
  /\ EveryStatusOk(payloads[w])
  /\ TotalBatchSize(payloads[w]) >= 1
  /\ (TotalBatchSize(payloads[w]) = 1
        \/ TotalBatchSize(payloads[w]) <= Ctx(w).max_batch_size_)

\* the runtime did not fail and kept the batch's leading dimension
RuntimePassedThrough(w) == ortOutcome[w] \in {"none", "ok"}

\* payload i of runner w holds, for every configured output, the bytes d
HoldsOutput(w, i, d) ==
  /\ Len(payloads[w][i].written) = Len(config.output)
  /\ \A k \in 1 .. Len(payloads[w][i].written) : payloads[w][i].written[k].data = d

\* C4: round trip. For a Group of OK payloads with matching input sizes and
\* an admissible total batch size, run against a runtime that returns its
\* input unchanged, Run reports success and every payload's output holds
\* exactly the bytes that payload submitted.
C4_RoundTrip ==
  \A w \in Runners :
    (pc[w] = "return" /\ Admissible(w) /\ config.input # <<>>
       /\ SizesMatch(payloads[w]) /\ RuntimePassedThrough(w)) =>
      /\ IsOk(onComplete[w][1])
      /\ \A i \in 1 .. Len(payloads[w]) :
           HoldsOutput(w, i, InputBytes(i, payloads[w][i].byte_size))

\* offset of payload i in the batch: the batch sizes of the payloads before it
Offset(ps, i) == SumSeq([j \in 1 .. (i - 1) |-> ps[j].batch_size])

Slice(data, off, n) == SubSeq(data, off * ItemBytes + 1, (off + n) * ItemBytes)

\* C5: once fan-out has run on a batched output whose leading dimension is
\* the total batch size, payload i holds the slice of every batched output
\* that starts at the sum of the batch sizes of the payloads before it and has
\* the length of its own batch size.
C5_FanOutSlices ==
  \A w \in Runners :
    (InRange(w) /\ pc[w] = "release" /\ Did(w, "ReadOutputTensors")
       /\ ortOutcome[w] = "ok") =>
      \A i \in 1 .. Len(payloads[w]) :
        /\ Len(payloads[w][i].written) = Len(output_names[w])
        /\ \A k \in 1 .. Len(payloads[w][i].written) :
             payloads[w][i].written[k].data =
               Slice(tensors[Ctx(w).output_tensors_[k]].data,
                     Offset(payloads[w], i), payloads[w][i].batch_size)

\* C6: for an admissible Group, Run ends in one of two outcomes, success with
\* every payload's outputs written or one error with no payload written, and
\* it ends in success when the inputs are well formed and the runtime does
\* not fail.
C6_TwoOutcomes ==
  \A w \in Runners :
    (pc[w] = "return" /\ Admissible(w)) =>
      /\ \/ /\ IsOk(onComplete[w][1])
            /\ \A i \in 1 .. Len(payloads[w]) :
                 Len(payloads[w][i].written) = Len(config.output)
         \/ /\ ~IsOk(onComplete[w][1])
            /\ NothingWritten(payloads[w])
      /\ (SizesMatch(payloads[w]) /\ RuntimePassedThrough(w)) =>
           IsOk(onComplete[w][1])

\* the first payload whose supplied byte size is not its batch size x ItemBytes
FirstMismatch(ps) ==
  CHOOSE i \in 1 .. Len(ps) :
    /\ ps[i].byte_size # ps[i].batch_size * ItemBytes
    /\ \A j \in 1 .. (i - 1) : ps[j].byte_size = ps[j].batch_size * ItemBytes

\* C7: when a payload of an admissible Group supplies a byte size different
\* from dims x datatype width x its batch size, the Group fails with a
\* size-mismatch error that identifies the request, the runtime is not
\* invoked and no output buffer is written.
C7_SizeMismatch ==
  \A w \in Runners :
    (pc[w] = "return" /\ Admissible(w) /\ config.input # <<>>
       /\ ~SizesMatch(payloads[w])) =>
      /\ onComplete[w][1].kind = "size_mismatch"
      /\ onComplete[w][1].ref = FirstMismatch(payloads[w])
      /\ ~Did(w, "OrtRun")
      /\ NothingWritten(payloads[w])

\* C8: when any payload handed to Run carries a non-OK status, at any
\* position, Run fails the Group with the INTERNAL payload-status error
\* without building an input tensor, reserving an output placeholder or
\* invoking the runtime, whatever the other payloads and the total batch size.
C8_NonOkPayload ==
  \A w \in Runners :
    (InRange(w) /\ Did(w, "Checks")
       /\ ~EveryStatusOk(payloads[w])) =>
      /\ status[w] = Status("INTERNAL", "payload_status", Ctx(w).name_)
      /\ pc[w] \in {"release", "complete", "return"}
      /\ ~Did(w, "SetInputTensor") /\ ~Did(w, "ReserveOutputs") /\ ~Did(w, "OrtRun")
      /\ Ctx(w).input_tensors_ = <<>> /\ Ctx(w).output_tensors_ = <<>>
      /\ pc[w] = "return" => onComplete[w] = <<status[w]>>

C8_Witness ==
  \E w \in Runners :
    /\ InRange(w) /\ pc[w] = "return"
    /\ Len(payloads[w]) = 2
    /\ payloads[w][1].status_ok /\ ~payloads[w][2].status_ok
    /\ TotalBatchSize(payloads[w]) = 1
    /\ onComplete[w] = <<Status("INTERNAL", "payload_status", Ctx(w).name_)>>

\* a declared input or output fails a check of context creation
BadIO(io, exposed) == io.name \notin exposed \/ io.data_type = "TYPE_INVALID"

FirstBad(ios, exposed) ==
  CHOOSE i \in 1 .. Len(ios) :
    BadIO(ios[i], exposed) /\ \A j \in 1 .. (i - 1) : ~BadIO(ios[j], exposed)

AnyBad(ios, exposed) == \E i \in 1 .. Len(ios) : BadIO(ios[i], exposed)

\* the last CreateExecutionContext call loaded its session
SessionLoaded ==
  /\ create.last # <<>>
  /\ Len(contexts_) = create.last.before + 1
  /\ contexts_[Len(contexts_)].session_ # nullptr

\* C9: once the session of an instance is loaded, CreateExecutionContext
\* fails with an error naming the first declared input whose name the session
\* does not expose or whose datatype has no runtime-native mapping; failing
\* that, with an error naming the first such declared output; and it returns
\* success only if no declared input and no declared output is of that kind.
C9_SchemaValidation ==
  create.last # <<>> =>
    /\ (SessionLoaded /\ AnyBad(config.input, {"a", "b"})) =>
         /\ ~IsOk(create.last.status)
         /\ create.last.status.kind \in {"unexpected_input", "unsupported_input_datatype"}
         /\ create.last.status.ref =
              config.input[FirstBad(config.input, {"a", "b"})].name
    /\ (SessionLoaded /\ ~AnyBad(config.input, {"a", "b"})
          /\ AnyBad(config.output, {"y", "z"})) =>
         /\ ~IsOk(create.last.status)
         /\ create.last.status.kind \in {"unexpected_output", "unsupported_output_datatype"}
         /\ create.last.status.ref =
              config.output[FirstBad(config.output, {"y", "z"})].name
    /\ IsOk(create.last.status) =>
         /\ ~AnyBad(config.input, {"a", "b"})
         /\ ~AnyBad(config.output, {"y", "z"})
         /\ SessionLoaded

\* declared {a, c} against exposed {a, b}: creation fails naming c
C9_Witness ==
  /\ SessionLoaded
  /\ Names(config.input) = <<"a", "c">>
  /\ create.last.status = Status("INVALID_ARG", "unexpected_input", "c")

\* runner w is between the dispatch start of a call and the end of its
\* ReleaseOrtRunResources
Active(w) == InRange(w) /\ pc[w] \notin {"idle", "complete", "return"}

ActiveOn(c) == {w \in Runners : Active(w) /\ ContextIndex(w) = c}

\* C10: at most one invocation is active on a context at any time, and the
\* context's tensor containers hold handles only while that invocation is
\* active, none of them released behind its back.
C10_OneInvocationPerContext ==
  \A c \in 1 .. Len(contexts_) :
    /\ Cardinality(ActiveOn(c)) <= 1
    /\ (ActiveOn(c) = {}) =>
         contexts_[c].input_tensors_ = <<>> /\ contexts_[c].output_tensors_ = <<>>
    /\ NonNull(contexts_[c].input_tensors_) \subseteq live
    /\ NonNull(contexts_[c].output_tensors_) \subseteq live
    /\ badReleases = 0

C10_Witness ==
  \E v, w \in Runners :
    /\ v # w /\ Active(v) /\ Active(w)
    /\ pc[v] = "fanout" /\ pc[w] = "release" /\ ortOutcome[w] = "fail_partial"
    /\ NonNull(Ctx(v).output_tensors_) # {} /\ NonNull(Ctx(w).output_tensors_) # {}

\* the handles held by the transient containers of context c
Handles(c) ==
  NonNull(contexts_[c].input_tensors_) \cup NonNull(contexts_[c].output_tensors_)

\* the members of a context that Run never assigns
Fixed(ctx) ==
  <<ctx.name_, ctx.gpu_device_, ctx.max_batch_size_, ctx.session_, ctx.allocator_info_>>

\* a step of Run on runner w leaves the configuration, the list of contexts
\* and every context other than contexts_[w] as they are, and creates and
\* releases no handle of another context
OwnContextOnly(w) ==
  /\ config' = config
  /\ DOMAIN contexts_' = DOMAIN contexts_
  /\ \A c \in DOMAIN contexts_ :
       /\ Fixed(contexts_'[c]) = Fixed(contexts_[c])
       /\ (~InRange(w) \/ c # ContextIndex(w)) =>
            /\ contexts_'[c] = contexts_[c]
            /\ Handles(c) \cap (live \ live') = {}
            /\ Handles(c) \cap (live' \ live) = {}
            /\ \A h \in Handles(c) \cap live : tensors'[h] = tensors[h]
  /\ ~InRange(w) => UNCHANGED heapVars

\* C11: every step of a Run on runner w, interleaved in any order with the
\* Runs of the other runners, reads and writes only the transient containers
\* and handles of contexts_[w]: the configuration, the list of contexts, the
\* other contexts and the handles they hold are unchanged by it.
C11_NoSharedMutableState ==
  [][\A w \in Runners : (pc'[w] # pc[w]) => OwnContextOnly(w)]_vars

\* one invocation has released its outputs while another one holds its own
C11_Witness ==
  \E v, w \in Runners :
    /\ v # w /\ InRange(v) /\ InRange(w)
    /\ pc[v] = "complete" /\ ortOutcome[v] = "ok"
    /\ pc[w] = "fanout" /\ Handles(ContextIndex(w)) # {}
    /\ Handles(ContextIndex(w)) \subseteq live

\* the last call of CreateExecutionContexts has returned success
CreateSucceeded == create.pc = "idle" /\ create.calls >= 1 /\ IsOk(create.result)

\* the contexts the last call of CreateExecutionContexts added to contexts_
Created == SubSeq(contexts_, create.base + 1, Len(contexts_))

\* number of instances an instance group asks for
GroupSize(group) ==
  IF group.kind = "KIND_CPU" THEN group.count ELSE group.count * Len(group.gpus)

\* number of instances asked for by the groups before group g
GroupOffset(groups, g) == SumSeq([j \in 1 .. (g - 1) |-> GroupSize(groups[j])])

\* C12: when CreateExecutionContexts returns success, the contexts it added
\* are, in configuration order, one per replica of each CPU group, bound to
\* NO_GPU_DEVICE, and one per (replica, listed device) pair of each GPU group,
\* replica-major and device-minor, bound to that device; their number is the
\* sum over the groups of count (CPU) or count x number of devices (GPU).
C12_OneContextPerInstance ==
  CreateSucceeded =>
    LET groups == config.instance_group IN
    /\ Len(Created) = SumSeq([g \in 1 .. Len(groups) |-> GroupSize(groups[g])])
    /\ \A g \in 1 .. Len(groups) : \A c \in 0 .. (groups[g].count - 1) :
         IF groups[g].kind = "KIND_CPU"
         THEN LET ctx == Created[GroupOffset(groups, g) + c + 1] IN
              /\ ctx.gpu_device_ = NO_GPU_DEVICE
              /\ ctx.name_ = CpuInstanceName(groups[g], c)
         ELSE \A d \in 1 .. Len(groups[g].gpus) :
              LET ctx == Created[GroupOffset(groups, g)
                                   + c * Len(groups[g].gpus) + d] IN
              /\ ctx.gpu_device_ = groups[g].gpus[d]
              /\ ctx.name_ = GpuInstanceName(groups[g], c, groups[g].gpus[d])

\* two replicas on two devices: four contexts, devices 0, 1, 0, 1
C12_Witness ==
  /\ CreateSucceeded
  /\ Len(Created) = 4
  /\ [i \in 1 .. 4 |-> Created[i].gpu_device_] = <<0, 1, 0, 1>>

\* the last CreateExecutionContext call got the properties of its device
DeviceKnown ==
  create.last.gpu_device = NO_GPU_DEVICE \/ create.cuda[create.last.gpu_device] # "error"

\* the override file of the compute capability of the last call's device
HasOverride ==
  /\ create.last.gpu_device # NO_GPU_DEVICE
  /\ create.cuda[create.last.gpu_device] \in DOMAIN config.cc_model_filenames

Override == config.cc_model_filenames[create.cuda[create.last.gpu_device]]

\* the model file the last CreateExecutionContext call has to select
Selected == IF HasOverride THEN Override ELSE config.default_model_filename

\* C13: a CPU instance selects the default model file whatever the override
\* map holds; a GPU instance selects the file the map gives for its device's
\* compute capability, and the default file when the map has no such key; a
\* selected file that is not among the available paths makes the creation of
\* that instance fail with an error naming the file, the session is not
\* created and contexts_ is left as it was.
C13_ArtifactSelection ==
  (create.last # <<>> /\ DeviceKnown) =>
    /\ create.last.gpu_device = NO_GPU_DEVICE => Selected = config.default_model_filename
    /\ Selected \in create.paths => create.last.model = Selected
    /\ Selected \notin create.paths =>
         /\ create.last.status = Status("INTERNAL", "model_not_found", Selected)
         /\ create.last.model = ""
         /\ Len(contexts_) = create.last.before

\* a GPU instance whose override file is not available
C13_Witness ==
  /\ create.last # <<>> /\ DeviceKnown /\ HasOverride
  /\ Override # config.default_model_filename
  /\ Override \notin create.paths
  /\ create.last.status = Status("INTERNAL", "model_not_found", Override)
  /\ Len(contexts_) = create.last.before

\* context c as CreateExecutionContext left it
FreshContext(c) ==
  Loaded(Context(contexts_[c].name_, contexts_[c].gpu_device_, Mbs(config)))

EmptyHeap == [live |-> {}, tensors |-> <<>>, bad |-> 0]

\* the status a context that never ran gives the Group of runner w, for the
\* override map and the runtime outcome of w's call
FreshOutcome(w) ==
  LET ctx == FreshContext(ContextIndex(w))
      r == RunChecks(payloads[w], ctx)
      reserved == [ctx EXCEPT !.output_tensors_ =
                     [i \in 1 .. Len(config.output) |-> nullptr]]
      o == OrtRun(ortOutcome[w], reserved, r.total, EmptyHeap)
  IN IF r.done THEN r.status
     ELSE IF config.input # <<>> \/ overrides[w] # <<>>
     THEN SetInputTensor(ctx, "", r.total, payloads[w], <<>>, EmptyHeap).status
     ELSE IF ~IsOk(o.status) THEN o.status
     ELSE ReadOutputTensors(reserved, r.total, Names(config.output), payloads[w],
                            EmptyHeap).status

\* Idle and Running of a context, at a dispatch start and at a return
ContextIdleIsFresh ==
  /\ badReleases = 0
  /\ (\A w \in Runners : pc[w] \in {"idle", "entry", "complete", "return"}) => live = {}
  /\ \A w \in Runners : InRange(w) =>
       /\ (~Active(w) \/ pc[w] = "entry") => Ctx(w) = FreshContext(ContextIndex(w))
       /\ pc[w] = "return" => onComplete[w] = <<FreshOutcome(w)>>
       /\ Active(w) => ENABLED RunStep(w)

\* a context starts running at a dispatch and stops at the release only
ContextTransitions ==
  \A w \in Runners : InRange(w) =>
    /\ (~Active(w) /\ Active(w)') => (pc[w] = "idle" /\ pc'[w] = "entry")
    /\ (Active(w) /\ ~Active(w)') => (pc[w] = "release" /\ pc'[w] = "complete")

\* C14: a context is Idle or Running; it starts running at a dispatch only
\* and goes back to Idle only through the resource release, which every
\* running invocation can reach, failed or not; whatever Runs came before,
\* failed or successful, at the next dispatch start the context is as
\* CreateExecutionContext left it (containers empty, nothing live) and the
\* Group gets the outcome a context that never ran would give it.
C14_ContextStateMachine ==
  []ContextIdleIsFresh /\ [][ContextTransitions]_vars

\* after a failed Run the second Group is at the runtime invocation, with
\* only its own output placeholders in the context
C14_Witness ==
  \E w \in Runners :
    /\ InRange(w) /\ pc[w] = "ortrun"
    /\ handoff[w].handed = 2
    /\ handoff[w].done = <<[group |-> 1, ok |-> FALSE]>>
    /\ Ctx(w).output_tensors_ = [i \in 1 .. Len(config.output) |-> nullptr]

\* the call of runner w has gone past the batch-size check of Context::Run
PassedBatchCheck(w) ==
  /\ status[w].kind # "batch_size"
  /\ pc[w] = "fanin" \/ Did(w, "SetInputTensor") \/ Did(w, "GetInputOverride")

\* the call of runner w was stopped by the batch-size check
RejectedByBatchCheck(w) ==
  /\ status[w] = Status("INTERNAL", "batch_size", Ctx(w).name_)
  /\ pc[w] \in {"release", "complete", "return"}
  /\ ~Did(w, "SetInputTensor") /\ ~Did(w, "GetInputOverride")
  /\ ~Did(w, "ReserveOutputs") /\ ~Did(w, "OrtRun")

\* C15: a Group of OK payloads with total batch size t > 0 passes the
\* batch-size check if and only if t = 1 or t <= max_batch_size_ of the
\* context, and is rejected as a whole otherwise: a Group of total 1 passes
\* for every max_batch_size_, and on a context with max_batch_size_ 0 every
\* Group with t >= 2 is rejected.
C15_BatchAdmission ==
  \A w \in Runners :
    (InRange(w) /\ Did(w, "Checks") /\ EveryStatusOk(payloads[w])
       /\ TotalBatchSize(payloads[w]) > 0) =>
      LET t == TotalBatchSize(payloads[w])
          m == Ctx(w).max_batch_size_
      IN /\ PassedBatchCheck(w) <=> (t = 1 \/ t <= m)
         /\ RejectedByBatchCheck(w) <=> ~(t = 1 \/ t <= m)
         /\ (m = NO_BATCHING /\ t >= 2) => RejectedByBatchCheck(w)

\* a Group of total 1 on a non-batching context has reached the runtime
C15_Witness ==
  \E w \in Runners :
    /\ InRange(w) /\ pc[w] = "ortrun"
    /\ Ctx(w).max_batch_size_ = NO_BATCHING
    /\ TotalBatchSize(payloads[w]) = 1
    /\ Len(payloads[w]) = 2

\* C16: a Run whose payloads are all OK and whose total batch size is zero,
\* the empty payload list included, returns success from the checks: no input
\* tensor is built, no output placeholder is reserved, the runtime is not
\* invoked, no payload output is written, and the completion callback
\* receives success.
C16_ZeroBatchNoOp ==
  \A w \in Runners :
    (InRange(w) /\ Did(w, "Checks") /\ EveryStatusOk(payloads[w])
       /\ TotalBatchSize(payloads[w]) = 0) =>
      /\ status[w] = Success
      /\ pc[w] \in {"release", "complete", "return"}
      /\ ~Did(w, "SetInputTensor") /\ ~Did(w, "GetInputOverride")
      /\ ~Did(w, "ReserveOutputs") /\ ~Did(w, "OrtRun") /\ ~Did(w, "ReadOutputTensors")
      /\ Ctx(w).input_tensors_ = <<>> /\ Ctx(w).output_tensors_ = <<>>
      /\ NothingWritten(payloads[w])
      /\ pc[w] = "return" => onComplete[w] = <<Success>>

\* two payloads of batch size zero
C16_Witness ==
  \E w \in Runners :
    /\ InRange(w) /\ pc[w] = "return"
    /\ onComplete[w] = <<Success>>
    /\ Len(payloads[w]) = 2
    /\ TotalBatchSize(payloads[w]) = 0

\* the runtime invocation of runner w's call returned an error
OrtRunFailed(w) == ortOutcome[w] \in {"fail", "fail_partial"}

\* C17: when OrtRun returns an error, Run fails the Group with the INTERNAL
\* error that carries the runtime's error, ReadOutputTensors is not executed
\* and no payload output is written, and once the release has run (so before
\* the callback) the output placeholders are cleared and every tensor the
\* runtime left in them is released; the callback receives that error.
C17_RuntimeFailure ==
  \A w \in Runners :
    (InRange(w) /\ OrtRunFailed(w)) =>
      /\ status[w] = Status("INTERNAL", "onnx_runtime_error", ortOutcome[w])
      /\ pc[w] \in {"release", "complete", "return"}
      /\ ~Did(w, "ReadOutputTensors")
      /\ NothingWritten(payloads[w])
      /\ pc[w] = "release" => Len(Ctx(w).output_tensors_) = Len(config.output)
      /\ Released(w) =>
           /\ Ctx(w).input_tensors_ = <<>> /\ Ctx(w).output_tensors_ = <<>>
           /\ live = {} /\ badReleases = 0
      /\ pc[w] = "return" => onComplete[w] = <<status[w]>>

\* the runtime failed without producing an output, and Run has returned
C17_Witness ==
  \E w \in Runners :
    /\ InRange(w) /\ pc[w] = "return"
    /\ ortOutcome[w] = "fail"
    /\ onComplete[w] = <<Status("INTERNAL", "onnx_runtime_error", "fail")>>
    /\ Ctx(w).output_tensors_ = <<>>

\* every SetInputTensor call of runner w's call has returned success, for
\* the declared inputs and the override inputs
InputsAssembled(w) ==
  /\ pc[w] \in {"ortrun", "fanout", "release", "complete", "return"}
  /\ Did(w, "GetInputOverride")
  /\ status[w].kind # "SetInputTensor"

\* C18: a call of Run invokes the runtime at most once, whatever the number
\* of payloads, inputs and outputs; once it is past the invocation point it
\* has invoked it exactly once when the Group was admitted (all payloads OK,
\* total batch size > 0 and within the limit) and every input was assembled,
\* and not at all otherwise.
C18_SingleInvocation ==
  \A w \in Runners :
    /\ Count(log[w], "OrtRun") <= 1
    /\ pc[w] \in {"fanout", "release", "complete", "return"} =>
         Count(log[w], "OrtRun") =
           (IF Admissible(w) /\ InputsAssembled(w) THEN 1 ELSE 0)

\* a batch of two payloads was run in one invocation
C18_Witness ==
  \E w \in Runners :
    /\ pc[w] = "return" /\ Admissible(w) /\ InputsAssembled(w)
    /\ Len(payloads[w]) = 2 /\ TotalBatchSize(payloads[w]) = 2
    /\ Count(log[w], "OrtRun") = 1

\* the steps of one Run, in the order of the code
StepOrder ==
  <<"Call", "Timers", "Checks", "SetInputTensor", "GetInputOverride",
    "SetInputTensor", "ReserveOutputs", "OrtRun", "ReadOutputTensors",
    "Release", "OnComplete">>

\* s takes its steps from t in t's order (a SetInputTensor of t may repeat)
RECURSIVE Follows(_, _)
Follows(s, t) ==
  IF s = <<>> THEN TRUE
  ELSE IF t = <<>> THEN FALSE
  ELSE IF Head(s) = Head(t)
  THEN Follows(Tail(s), IF Head(t) = "SetInputTensor" THEN t ELSE Tail(t))
  ELSE Follows(s, Tail(t))

\* the step at which the call of runner w failed
FailedStep(w) ==
  CASE status[w].kind \in {"payload_status", "batch_size"} -> "Checks"
    [] status[w].kind = "onnx_runtime_error" -> "OrtRun"
    [] OTHER -> status[w].kind

\* the call of runner w has done nothing but release and callback since step
EndsAfter(w, step) ==
  \E tail \in {<<>>, <<"Release">>, <<"Release", "OnComplete">>} :
    \E n \in 1 .. Len(log[w]) :
      /\ log[w][n] = step
      /\ log[w] = SubSeq(log[w], 1, n) \o tail

\* number of SetInputTensor calls a complete fan-in of runner w's call makes
FanInSteps(w) == Len(config.input) + Len(overrides[w])

\* C19: the steps of one Run happen in the order admission checks, fan-in of
\* the declared inputs, fan-in of the override inputs, runtime invocation,
\* fan-out, release, callback; the runtime is invoked only after all fan-in
\* steps were made and none failed; fan-out runs only after an invocation
\* that succeeded; a step that fails is followed by the release and the
\* callback only; and the callback comes after the release.
C19_StepOrder ==
  \A w \in Runners : InRange(w) =>
    /\ Follows(log[w], StepOrder)
    /\ Did(w, "OrtRun") =>
         /\ Did(w, "Checks") /\ Did(w, "GetInputOverride") /\ Did(w, "ReserveOutputs")
         /\ Count(log[w], "SetInputTensor") = FanInSteps(w)
         /\ status[w].kind # "SetInputTensor"
    /\ Did(w, "ReadOutputTensors") =>
         /\ Did(w, "OrtRun")
         /\ ortOutcome[w] \in {"ok", "bad_shape"}
    /\ ~IsOk(status[w]) => EndsAfter(w, FailedStep(w))
    /\ Did(w, "OnComplete") => Did(w, "Release")
    /\ pc[w] = "return" =>
         SubSeq(log[w], Len(log[w]) - 1, Len(log[w])) = <<"Release", "OnComplete">>

\* a Run that went through every step
C19_Witness ==
  \E w \in Runners :
    /\ InRange(w) /\ pc[w] = "return"
    /\ log[w] = <<"Call", "Timers", "Checks", "GetInputOverride", "ReserveOutputs",
                  "OrtRun", "ReadOutputTensors", "Release", "OnComplete">>

\* the Groups whose completion callback the worker of runner w has received
CalledBack(w) == [i \in 1 .. Len(handoff[w].done) |-> handoff[w].done[i].group]

\* C20: the worker of a context hands Group k+1 to Run after Run returned
\* for Group k. Completion callbacks reach it in hand-off order, one per
\* Group; while Group k is in Run the callbacks of Groups 1 .. k-1 have all
\* been issued and that of no later Group; and at the first step of Group k
\* the resources of the Groups before it are released (the containers of the
\* context are empty and no tensor is live).
C20_HandOffOrder ==
  \A w \in Runners : InRange(w) =>
    LET k == handoff[w].handed IN
    /\ CalledBack(w) = [i \in 1 .. Len(handoff[w].done) |-> i]
    /\ Len(handoff[w].done) = (IF pc[w] \in {"idle", "return"} THEN k ELSE k - 1)
    /\ pc[w] \in {"entry", "run"} =>
         /\ Ctx(w).input_tensors_ = <<>> /\ Ctx(w).output_tensors_ = <<>>
         /\ live = {} /\ badReleases = 0

\* the second Group of a context has completed after the first, both having
\* had tensors to release
C20_Witness ==
  \E w \in Runners :
    /\ InRange(w) /\ pc[w] = "return"
    /\ handoff[w].handed = 2
    /\ CalledBack(w) = <<1, 2>>
    /\ ~handoff[w].done[1].ok
    /\ ortOutcome[w] = "fail_partial"

\* the last call of CreateExecutionContexts has returned
CreateReturned == create.pc = "idle" /\ create.calls >= 1

\* the device of an instance can be bound and its model file is available
Loadable(inst) ==
  \/ /\ inst.gpu_device = NO_GPU_DEVICE
     /\ config.default_model_filename \in create.paths
  \/ /\ inst.gpu_device # NO_GPU_DEVICE
     /\ create.cuda[inst.gpu_device] # "error"
     /\ SelectModelFilename(inst.gpu_device, create.cuda[inst.gpu_device]) \in create.paths

\* the last call of CreateExecutionContexts created a context for inst
HasContext(inst) ==
  \E i \in 1 .. Len(Created) :
    /\ Created[i].name_ = inst.name
    /\ Created[i].session_ # nullptr

\* C21: when CreateExecutionContexts has returned and an instance failed on
\* its device properties or on a missing model file, every other instance
\* whose device and model file are in order has been created, and the call
\* has failed as a whole only if no instance was created.
C21_FailureIsolated ==
  (CreateReturned /\ create.result.kind \in {"cuda_properties", "model_not_found"}) =>
    LET insts == Instances(config.instance_group) IN
    /\ \A i \in 1 .. Len(insts) : Loadable(insts[i]) => HasContext(insts[i])
    /\ ~IsOk(create.result) => \A i \in 1 .. Len(insts) : ~HasContext(insts[i])

\* the last CreateExecutionContext call failed in OrtCreateSession or in
\* ValidateInputs / ValidateOutputs
SessionOrSchemaFailed ==
  /\ create.last # <<>>
  /\ \/ create.last.status = Status("INTERNAL", "onnx_runtime_error", "OrtCreateSession")
     \/ create.last.status.kind \in
          {"unexpected_input", "unsupported_input_datatype",
           "unexpected_output", "unsupported_output_datatype"}

\* C22: when session creation or schema validation fails for an instance,
\* contexts_ holds no context for it after CreateExecutionContext returned
\* the error: its length is the one of before the call and no context in it
\* carries the instance's name.
C22_FailedInstanceAbsent ==
  SessionOrSchemaFailed =>
    /\ Len(contexts_) = create.last.before
    /\ \A i \in (create.base + 1) .. Len(contexts_) :
         contexts_[i].name_ # create.last.name

\* a context whose session was created, whose inputs and outputs were
\* validated and whose allocator info was created
FullyCreated(ctx) == ctx.session_ # nullptr /\ ctx.allocator_info_ # nullptr

\* the scheduler has been given a number of runners
SchedulerConfigured == create.runners # -1

Min(a, b) == IF a <= b THEN a ELSE b

\* C24: the max_batch_size_ of every context is 0 when the configured
\* maximum is <= 0 and otherwise the minimum of the configured maximum and
\* the maximum the loaded runtime reports, so it never exceeds the latter.
C24_EffectiveMaxBatch ==
  \A i \in 1 .. Len(contexts_) :
    /\ contexts_[i].max_batch_size_ =
         (IF config.max_batch_size <= 0 THEN NO_BATCHING
          ELSE Min(config.max_batch_size, create.runtime_max))
    /\ contexts_[i].max_batch_size_ <= create.runtime_max

\* the status fields of a payload list
Statuses(ps) == [i \in 1 .. Len(ps) |-> ps[i].status_ok]

\* a step inside a call of Run leaves every payload's status as it was
StatusKept ==
  \A w \in Runners :
    (pc[w] # "idle" /\ pc'[w] # "idle") => Statuses(payloads'[w]) = Statuses(payloads[w])

\* a failed call has reported its failure once, to the completion callback
ReportedOnce ==
  \A w \in Runners :
    (pc[w] = "return" /\ InRange(w) /\ ~IsOk(status[w])) => onComplete[w] = <<status[w]>>

\* C25: no step of Run, from its call to its return, changes the status of a
\* payload, whatever failure occurs (batch-size rejection, failed fan-in,
\* runtime error, failed fan-out, non-OK payload), and the failure is
\* reported once, as the aggregate Status given to the completion callback.
C25_PayloadStatusFrame ==
  [][StatusKept]_vars /\ []ReportedOnce

\* fan-out failed for two OK payloads: both are still OK when Run returns
C25_Witness ==
  \E w \in Runners :
    /\ pc[w] = "return" /\ InRange(w)
    /\ status[w].kind = "ReadOutputTensors"
    /\ Statuses(payloads[w]) = <<TRUE, TRUE>>
    /\ onComplete[w] = <<status[w]>>

\* the leading dimensions of the tensors the runtime left in the output
\* placeholders of runner w's context
OutputLeads(w) ==
  {tensors[h].lead : h \in NonNull(Ctx(w).output_tensors_) \cap DOMAIN tensors}

\* C26: when fan-out has run on a batched output whose leading dimension is
\* not the Group's total batch size, the Group has failed with an
\* output-shape error and no payload output has been written; the error is
\* not the one a well-shaped output gets.
C26_OutputShapeChecked ==
  \A w \in Runners :
    (InRange(w) /\ pc[w] = "release" /\ Did(w, "ReadOutputTensors")
       /\ \E lead \in OutputLeads(w) : lead # total_batch_size[w]) =>
      /\ status[w].kind = "output_shape"
      /\ NothingWritten(payloads[w])

\* C27: when Run is about to invoke the runtime, input_names and the
\* context's input_tensors_ have the same length, one entry per declared
\* input followed by one per override input, with no null input handle, and
\* output_names and output_tensors_ have the same length, one entry per
\* configured output in configuration order.
C27_ParallelLists ==
  \A w \in Runners :
    (InRange(w) /\ pc[w] = "ortrun") =>
      /\ Len(input_names[w]) = Len(Ctx(w).input_tensors_)
      /\ input_names[w] = Names(config.input) \o overrides[w]
      /\ \A i \in 1 .. Len(Ctx(w).input_tensors_) : Ctx(w).input_tensors_[i] # nullptr
      /\ output_names[w] = Names(config.output)
      /\ Len(Ctx(w).output_tensors_) = Len(output_names[w])

\* the invocation point with two output names and two placeholders
C27_Witness ==
  \E w \in Runners :
    /\ InRange(w) /\ pc[w] = "ortrun"
    /\ output_names[w] = <<"y", "z">>
    /\ Ctx(w).output_tensors_ = <<nullptr, nullptr>>
    /\ TotalBatchSize(payloads[w]) = 2

\* the names of the contexts the last call of CreateExecutionContexts added
CreatedNames == [i \in 1 .. Len(Created) |-> Created[i].name_]

\* no two instance groups of a kind share a name, no group lists a device twice
DistinctGroups(groups) ==
  /\ \A g, h \in 1 .. Len(groups) :
       (g # h /\ groups[g].kind = groups[h].kind) => groups[g].name # groups[h].name
  /\ \A g \in 1 .. Len(groups) : \A d, e \in 1 .. Len(groups[g].gpus) :
       d # e => groups[g].gpus[d] # groups[g].gpus[e]

Destroyed == create.pc = "destroyed"

\* C29: over the load of a backend, any sequence of Runs and its
\* destruction, no tensor handle is released twice or without being live,
\* none is left once a Run has released (so none is present when the next
\* Run starts or when the destructor runs) and none is live after the
\* destruction; the session and the allocator info of a context are released
\* by its destructor only, once, and exactly when they were created.
C29_ReleasedExactlyOnce ==
  /\ badReleases = 0
  /\ (\A w \in Runners : pc[w] \in {"idle", "entry", "run", "complete", "return"}) =>
       live = {}
  /\ \A w \in Runners : (InRange(w) /\ pc[w] \in {"idle", "entry", "run"}) =>
       Ctx(w).input_tensors_ = <<>> /\ Ctx(w).output_tensors_ = <<>>
  /\ ~Destroyed => create.destructed = <<>>
  /\ Destroyed =>
       /\ live = {} /\ contexts_ = <<>>
       /\ \A i \in 1 .. Len(create.destructed) :
            LET d == create.destructed[i] IN
            /\ d.OrtReleaseSession <=> d.ctx.session_ # nullptr
            /\ d.OrtReleaseAllocatorInfo <=> d.ctx.allocator_info_ # nullptr
            /\ d.ctx.input_tensors_ = <<>> /\ d.ctx.output_tensors_ = <<>>

\* two contexts were destroyed after each had run MaxGroups Groups
C29_Witness ==
  /\ Destroyed
  /\ Len(create.destructed) = 2
  /\ \A w \in {0, 1} : handoff[w].handed = MaxGroups /\ ~handoff[w].done[1].ok

\* the step of Run(w) that finds its runner index out of range
OutOfRangeStep(w) == pc[w] = "entry" /\ ~InRange(w) /\ pc'[w] # "entry"

\* that step delivers one INTERNAL status and returns, and nothing else changes
OutOfRangeReports ==
  \A w \in Runners : OutOfRangeStep(w) =>
    /\ onComplete' = [onComplete EXCEPT ![w] =
           Append(@, Status("INTERNAL", "runner_index", ""))]
    /\ pc' = [pc EXCEPT ![w] = "return"]
    /\ UNCHANGED <<config, contexts_, heapVars, payloads, overrides, status,
                   total_batch_size, input_names, output_names, fanin,
                   ortOutcome, create>>

\* a Run with an out-of-range index executes the index check and the callback only
OutOfRangeRunsNothing ==
  \A w \in Runners : (~InRange(w) /\ pc[w] # "idle") =>
    /\ pc[w] \in {"entry", "return"}
    /\ log[w] = IF pc[w] = "entry" THEN <<"Call">> ELSE <<"Call", "OnComplete">>

\* C30: a Run whose runner index is not below the number of contexts
\* delivers an INTERNAL status to the completion callback and changes nothing
\* else: no Context::Run, ReleaseOrtRunResources or OrtRun is executed, the
\* payloads (their timers and statistics) are as they were handed in, and the
\* contexts, their containers and the tensor handles are unchanged.
C30_OutOfRangeRunner == []OutOfRangeRunsNothing /\ [][OutOfRangeReports]_vars

\* a Run with two payloads returned after an out-of-range runner index
C30_Witness ==
  \E w \in Runners :
    /\ ~InRange(w) /\ pc[w] = "return"
    /\ Len(payloads[w]) = 2
    /\ \A i \in 1 .. 2 : payloads[w][i].queue_timer_ /\ ~payloads[w][i].compute_timer
    /\ onComplete[w] # <<>>
    /\ onComplete[w][Len(onComplete[w])] = Status("INTERNAL", "runner_index", "")

\* C31: whenever CreateExecutionContexts has returned success, on the first
\* or on a later call, the number of runners given to the scheduler is the
\* number of contexts in contexts_, so every runner index 0 .. runners-1 is
\* in range, and runner i drives the i-th instance the call created.
C31_RunnersMatchContexts ==
  CreateSucceeded =>
    /\ create.runners = Len(contexts_)
    /\ \A r \in 0 .. (create.runners - 1) :
         /\ InRange(r)
         /\ r < Len(Created)
         /\ contexts_[ContextIndex(r)] = Created[r + 1]

\* LoadSavedModel has returned
LoadSavedModelReturned == loader.pc = "returned"

\* the metagraph buffer and the status object of the call were each released once
TFObjectsReleasedOnce ==
  /\ loader.badDeletes = 0
  /\ LoadSavedModelReturned =>
       loader.metagraph = "deleted" /\ loader.tfstatus = "deleted"

\* C32: when LoadSavedModel returns a status that is not OK (load failure,
\* no "serve" tag, no "serving_default" signature), *session is null and
\* *sig is as it was before the call; on every return the metagraph buffer
\* and the status object have each been released exactly once.
C32_SessionOnlyOnSuccess ==
  /\ TFObjectsReleasedOnce
  /\ (LoadSavedModelReturned /\ ~IsOk(loader.ret)) =>
       /\ loader.session = nullptr
       /\ loader.sig = loader.sig_before

====
